---- MODULE Spec2Model ----
(***************************************************************************)
(* The generation job lifecycle of image-composer: one Generation row, the *)
(* BullMQ job that runs processGenerationJob for it, the provider's tasks, *)
(* the POST /webhooks/kieai deliveries and the invocations of              *)
(* handleKieCallback (from the webhook and from the worker's polling       *)
(* loop), interleaved at their await points.  Every database call is one   *)
(* atomic step; the code between two awaits runs without interruption      *)
(* (Node's single thread).                                                 *)
(***************************************************************************)
EXTENDS Integers, Sequences, FiniteSets, TLC

(* ------------------------------ bounds --------------------------------- *)

\* Largest params.variations a behaviour starts with (the schema allows 3).
MaxVariations == 2
\* Provider tasks created over a whole behaviour (kieCreateTask's ids are fresh).
MaxTasks == MaxVariations + 1
\* POST /webhooks/kieai deliveries over a whole behaviour.
MaxWebhooks == 2
\* Result URLs in a success payload.
MaxUrls == 1
\* Disturbances over a whole behaviour: exceptions thrown by the awaited calls
\* of processGenerationJob and POST /admin/retry-job requests, together.
MaxDisturbances == 1
\* Generations whose jobs the queue is followed for.
MaxGenerations == 2
\* Calls of enqueueGeneration over a whole behaviour.
MaxAdds == 4
\* GenerationOutput rows of the generation whose deletion is followed.
MaxOutputs == 2
\* Uploaded assets, and generations created from them, in the asset library.
MaxAssets == 2
MaxLinked == 2
\* Runs of the retention purge over a whole behaviour.
MaxPurges == 2

(* ------------------------- program constants --------------------------- *)

\* defaultJobOptions.attempts of the generation queue.
Attempts == 3
\* concurrency of the BullMQ Worker that runs processGenerationJob.
Concurrency == 3

NULL == "null"
DefaultFailMsg == "Kie AI task failed"
JobErrorMsg == "job error"

TaskIds == 1..MaxTasks
\* A task id no kieCreateTask call ever returned (stale or forged callback).
ForeignTask == 0
PollSlot == 0
WebSlots == 1..MaxWebhooks
Slots == WebSlots \cup {PollSlot}

VARIABLES
    gen,        \* the Generation row
    outputs,    \* GenerationOutput rows of the generation, counted per kieTaskId
    jobLog,     \* JobLog rows (append-only), counted per event
    job,        \* the BullMQ job whose id is the generation id
    w,          \* the running execution of processGenerationJob
    tasks,      \* the provider's task records
    cb,         \* the invocations of handleKieCallback, per slot
    admin,      \* the POST /admin/retry-job request being handled
    env,        \* counters of what the environment has done so far
    hist,       \* per task: what the reconciler has done for it (history)
    q,          \* the generation queue: its jobs, whatever generation they are for
    web,        \* the POST /webhooks/kieai requests handled so far
    del,        \* the deletedAt columns of a generation and of its outputs,
                \* the purge running on it and the last session-facing read
    req,        \* a POST /api/generate or /api/generation/:id/update request,
                \* the params of a stored generation, and what was computed
    ast         \* the asset rows of two sessions with their storage objects,
                \* and the generations linked to them

\* The variables of the generation lifecycle, and those of the parts of the
\* server modelled on their own.
lifecycleVars == <<gen, outputs, jobLog, job, w, tasks, cb, admin, env, hist>>
edgeVars == <<q, web, del, req, ast>>

vars == <<lifecycleVars, edgeVars>>

(* ------------------------------ helpers -------------------------------- *)

Contains(seq, x) == \E k \in 1..Len(seq) : seq[k] = x

RECURSIVE SumOver(_, _)
SumOver(f, S) ==
    IF S = {} THEN 0
    ELSE LET x == CHOOSE y \in S : TRUE IN f[x] + SumOver(f, S \ {x})

RECURSIVE Remove(_, _)
Remove(seq, x) ==
    IF seq = <<>> THEN <<>>
    ELSE IF Head(seq) = x THEN Remove(Tail(seq), x)
    ELSE <<Head(seq)>> \o Remove(Tail(seq), x)

\* (params.variations as number) ?? 1 ; 0 stands for an absent field.
VariationsOf(p) == IF p = 0 THEN 1 ELSE p

ProviderMsg(t) == "failMsg " \o ToString(t)

IdleCb ==
    [pc |-> "idle", task |-> 0, state |-> "none", nUrls |-> 0, failMsg |-> NULL,
     idx |-> 0, hasOutputs |-> 0, dup |-> FALSE]

IdleW == [pc |-> "idle", taskIds |-> <<>>, pending |-> <<>>, todo |-> <<>>]

NoHist ==
    [called |-> FALSE, found |-> 0, finished |-> 0, overlap |-> FALSE,
     skipped |-> FALSE]

\* new Queue(GENERATION_QUEUE): no job yet, no add made.
EmptyQueue == [jobs |-> {}, adds |-> 0, gens |-> 0, ignored |-> {}]

\* A request slot of POST /webhooks/kieai before the request has arrived.
\* status 0: no response sent; trace: what the server did for it, in order.
NoRequest ==
    [payload |-> [parsed |-> FALSE, hasData |-> FALSE, hasTaskId |-> FALSE,
                  state |-> "absent"],
     status |-> 0, received |-> FALSE, trace |-> <<>>, slot |-> 0]

OutIds == 1..MaxOutputs

NoRead == [route |-> "none", out |-> 0, status |-> 0, afterDelete |-> FALSE]

\* A generation that is not deleted and has no output row yet; no purge is
\* running on it and nothing has been read.
NotDeleted ==
    [genDeleted |-> FALSE, outs |-> [o \in OutIds |-> "none"], purge |-> "idle",
     read |-> NoRead]

\* Strings whose characters matter are sequences of one-character strings.
LowerCase ==
    <<"a", "b", "c", "d", "e", "f", "g", "h", "i", "j", "k", "l", "m", "n",
      "o", "p", "q", "r", "s", "t", "u", "v", "w", "x", "y", "z">>
UpperCase ==
    <<"A", "B", "C", "D", "E", "F", "G", "H", "I", "J", "K", "L", "M", "N",
      "O", "P", "Q", "R", "S", "T", "U", "V", "W", "X", "Y", "Z">>

\* The prompts of the requests: blocklisted terms in lower, upper and mixed
\* case, inside a sentence and inside a longer word, near misses, clean
\* prompts, and the empty prompt.
Prompts ==
    {<<"n", "u", "d", "e">>,
     <<"N", "U", "D", "E">>,
     <<"n", "U", "d", "E">>,
     <<"a", " ", "N", "s", "F", "w", " ", "b">>,
     <<"d", "u", "n", "e">>,
     <<"n", "u", "d">>,
     <<"n", "u", " ", "d", "e">>,
     <<"b", "l", "u", "e", " ", "d", "r", "e", "s", "s">>,
     <<"E", "x", "p", "l", "i", "c", "i", "t">>,
     <<"s", "n", "a", "k", "e", "d">>,
     <<"P", "o", "r", "n", "o", "g", "r", "a", "p", "h", "i", "c">>,
     <<>>}

\* A request that has not been received; in the stored params NULL stands for
\* an absent field.
NoRequestYet ==
    [pc |-> "none", route |-> "generate", session |-> FALSE, limited |-> FALSE,
     bodyValid |-> FALSE, found |-> FALSE, prompt |-> <<>>,
     status |-> 0, rows |-> 0, jobs |-> 0, safe |-> "unset",
     resolution |-> NULL, framing |-> NULL, view |-> NULL,
     resolved |-> "unset", ratio |-> "unset"]

Sessions == {"s1", "s2"}
AssetIds == 1..MaxAssets
LinkIds == 1..MaxLinked

NoLinked ==
    [made |-> FALSE, session |-> "s1", assets |-> {}, route |-> "none",
     old |-> FALSE, deleted |-> FALSE, clean |-> TRUE]

\* The assets just uploaded by their owners (row live, object stored, younger
\* than the retention cutoff), no generation created from them, no request
\* answered and no purge run.  harmed is history: the assets whose object a
\* purge removed while a generation that was neither expired nor deleted
\* still linked them.
FreshAssets(owners) ==
    [asset |-> [a \in AssetIds |->
                  [owner |-> owners[a], old |-> FALSE, deleted |-> FALSE,
                   object |-> TRUE]],
     gen |-> [g \in LinkIds |-> NoLinked],
     made |-> 0, status |-> 0, purges |-> 0, harmed |-> {}]

NoLinks == FreshAssets([a \in AssetIds |-> "s1"])

(* ------------------------------- Init ---------------------------------- *)

\* POST /api/generate has created the row (status queued, variationsTotal from
\* params.variations ?? 1), enqueued the job and logged job.queued.
InitGeneration ==
    /\ \E p \in 0..MaxVariations :
         gen = [status |-> "queued", params |-> p, kieTaskIds |-> <<>>,
                variationsTotal |-> VariationsOf(p), variationsDone |-> 0,
                failureReason |-> NULL, startedAt |-> FALSE, completedAt |-> FALSE]
    /\ outputs = [t \in TaskIds |-> 0]
    /\ jobLog = [queued |-> 1, started |-> 0, submitted |-> {}, callback |-> 0,
                 failed |-> 0]
    /\ job = [state |-> "waiting", attemptsMade |-> 0]
    /\ w = IdleW
    /\ tasks = [t \in TaskIds |->
                  [state |-> "none", nUrls |-> 0, failMsg |-> NULL]]
    /\ cb = [s \in Slots |-> IdleCb]
    /\ admin = "idle"
    /\ env = [webhooks |-> 0, faults |-> 0, created |-> 0, adminRetries |-> 0,
              termWrites |-> 0, unknown |-> 0, lowered |-> FALSE]
    /\ hist = [t \in TaskIds |-> NoHist]

\* The state after construction: the generation just created, an empty queue
\* view, and no webhook request, deletion, read or generate request yet.
Init ==
    /\ InitGeneration
    /\ q = EmptyQueue
    /\ web = [k \in 1..MaxWebhooks |-> NoRequest]
    /\ del = NotDeleted
    /\ ast = NoLinks
    /\ req = NoRequestYet


(* ------------------- calling handleKieCallback ------------------------- *)

\* Another invocation for task t has been called and has not returned yet.
ActiveFor(t, s) ==
    \E r \in Slots \ {s} : cb[r].task = t /\ cb[r].pc \notin {"idle", "done"}

\* handleKieCallback(taskId, state, resultJson, failMsg) is called: it runs up
\* to its first await, the generation lookup.
CallCb(t, st, n, m) ==
    [IdleCb EXCEPT !.pc = "find", !.task = t, !.state = st, !.nUrls = n,
                   !.failMsg = m,
                   !.dup = t \in TaskIds /\ hist[t].finished > 0]

\* History: handleKieCallback is called for t, possibly overlapping a call for
\* t that is still running.
HistOnCall(t, s) ==
    IF t \in TaskIds
    THEN [hist EXCEPT ![t].called = TRUE, ![t].overlap = @ \/ ActiveFor(t, s)]
    ELSE hist

(* --------------------------- the job queue ----------------------------- *)

\* What BullMQ does when the processor throws: the attempt is counted and the
\* job is retried while attemptsMade < attempts, else kept as failed
\* (removeOnFail: false).
JobThrown(j) ==
    [state |-> IF j.attemptsMade + 1 < Attempts THEN "waiting" ELSE "failed",
     attemptsMade |-> j.attemptsMade + 1]

\* The processor returned: the job is removed (removeOnComplete: true).
JobReturned(j) == [state |-> "none", attemptsMade |-> j.attemptsMade]

\* A worker of the pool takes the waiting job and calls processGenerationJob,
\* which runs up to its first await.
JobPickup ==
    /\ job.state = "waiting"
    /\ w.pc = "idle"
    /\ job' = [job EXCEPT !.state = "active"]
    /\ w' = [IdleW EXCEPT !.pc = "markProcessing"]
    /\ UNCHANGED <<gen, outputs, jobLog, tasks, cb, env, hist, admin>>
    /\ UNCHANGED edgeVars

(* ----------------------- processGenerationJob -------------------------- *)

\* prisma.generation.update({status: "processing", startedAt})
WMarkProcessing ==
    /\ w.pc = "markProcessing"
    /\ gen' = [gen EXCEPT !.status = "processing", !.startedAt = TRUE]
    /\ w' = [w EXCEPT !.pc = "logStarted"]
    /\ UNCHANGED <<outputs, jobLog, job, tasks, cb, env, hist, admin>>
    /\ UNCHANGED edgeVars

\* prisma.jobLog.create({event: "job.started"})
WLogStarted ==
    /\ w.pc = "logStarted"
    /\ jobLog' = [jobLog EXCEPT !.started = @ + 1]
    /\ w' = [w EXCEPT !.pc = "load"]
    /\ UNCHANGED <<gen, outputs, job, tasks, cb, env, hist, admin>>
    /\ UNCHANGED edgeVars

\* prisma.generation.findUniqueOrThrow with its assets
WLoad ==
    /\ w.pc = "load"
    /\ w' = [w EXCEPT !.pc = "sign"]
    /\ UNCHANGED <<gen, outputs, jobLog, job, tasks, cb, env, hist, admin>>
    /\ UNCHANGED edgeVars

\* getSignedUrl for every linked asset
WSign ==
    /\ w.pc = "sign"
    /\ w' = [w EXCEPT !.pc = "submit"]
    /\ UNCHANGED <<gen, outputs, jobLog, job, tasks, cb, env, hist, admin>>
    /\ UNCHANGED edgeVars

\* kieCreateTask: the provider creates a task (state waiting) and returns its id.
WSubmit ==
    /\ w.pc = "submit"
    /\ env.created < MaxTasks
    /\ LET t == env.created + 1 IN
         /\ tasks' = [tasks EXCEPT ![t].state = "waiting"]
         /\ w' = [w EXCEPT !.taskIds = Append(@, t), !.pc = "submitLog"]
         /\ env' = [env EXCEPT !.created = t]
    /\ UNCHANGED <<gen, outputs, jobLog, job, cb, hist, admin>>
    /\ UNCHANGED edgeVars

\* prisma.jobLog.create({event: "kie.submitted"}), then the loop test
WSubmitLog ==
    /\ w.pc = "submitLog"
    /\ jobLog' = [jobLog EXCEPT !.submitted = @ \cup {w.taskIds[Len(w.taskIds)]}]
    /\ w' = [w EXCEPT !.pc = IF Len(w.taskIds) < VariationsOf(gen.params)
                              THEN "submit" ELSE "persist"]
    /\ UNCHANGED <<gen, outputs, job, tasks, cb, env, hist, admin>>
    /\ UNCHANGED edgeVars

\* prisma.generation.update({kieTaskIds, variationsTotal, variationsDone: 0});
\* then pendingTasks = new Set(taskIds) and the first round of the loop begins.
WPersist ==
    /\ w.pc = "persist"
    /\ gen' = [gen EXCEPT !.kieTaskIds = w.taskIds,
                          !.variationsTotal = VariationsOf(gen.params),
                          !.variationsDone = 0]
    /\ w' = [w EXCEPT !.pc = "poll", !.pending = w.taskIds, !.todo = w.taskIds]
    /\ env' = [env EXCEPT !.lowered = @ \/ gen.variationsDone > 0]
    /\ UNCHANGED <<outputs, jobLog, job, tasks, cb, hist, admin>>
    /\ UNCHANGED edgeVars

\* Mutant of WPollQuery: the loop body has no try/catch, so an exception of
\* kieQueryTask reaches the catch block of processGenerationJob.
WPollQueryUncaught ==
    /\ w.pc = "poll"
    /\ w.todo # <<>>
    /\ LET t == Head(w.todo) IN
       \E threw \in BOOLEAN :
         IF threw
         THEN /\ w' = [w EXCEPT !.pc = "catchUpdate"]
              /\ UNCHANGED <<cb, hist>>
         ELSE IF tasks[t].state \in {"success", "fail"}
         THEN /\ cb' = [cb EXCEPT ![PollSlot] =
                         CallCb(t, tasks[t].state, tasks[t].nUrls, tasks[t].failMsg)]
              /\ hist' = HistOnCall(t, PollSlot)
              /\ w' = [w EXCEPT !.pc = "pollCb"]
         ELSE /\ w' = [w EXCEPT !.todo = Tail(@)]
              /\ UNCHANGED <<cb, hist>>
    /\ UNCHANGED <<gen, outputs, jobLog, job, tasks, env, admin>>
    /\ UNCHANGED edgeVars

\* kieQueryTask(taskId) for the next task of the round.  It throws (caught and
\* logged) or returns the record; on a terminal state handleKieCallback is
\* called and awaited.
WPollQuery ==
    /\ w.pc = "poll"
    /\ w.todo # <<>>
    /\ LET t == Head(w.todo) IN
       \E threw \in BOOLEAN :
         IF ~threw /\ tasks[t].state \in {"success", "fail"}
         THEN /\ cb' = [cb EXCEPT ![PollSlot] =
                         CallCb(t, tasks[t].state, tasks[t].nUrls, tasks[t].failMsg)]
              /\ hist' = HistOnCall(t, PollSlot)
              /\ w' = [w EXCEPT !.pc = "pollCb"]
         ELSE /\ w' = [w EXCEPT !.todo = Tail(@)]
              /\ UNCHANGED <<cb, hist>>
    /\ UNCHANGED <<gen, outputs, jobLog, job, tasks, env, admin>>
    /\ UNCHANGED edgeVars

\* handleKieCallback returned: pendingTasks.delete(taskId)
WPollReturn ==
    /\ w.pc = "pollCb"
    /\ cb[PollSlot].pc = "done"
    /\ cb' = [cb EXCEPT ![PollSlot] = IdleCb]
    /\ w' = [w EXCEPT !.pc = "poll", !.pending = Remove(@, Head(w.todo)),
                      !.todo = Tail(@)]
    /\ UNCHANGED <<gen, outputs, jobLog, job, tasks, env, hist, admin>>
    /\ UNCHANGED edgeVars

\* The round is over with tasks still pending: sleep pollInterval, and the
\* ceiling has not elapsed: next round over Array.from(pendingTasks).
WPollSleep ==
    /\ w.pc = "poll"
    /\ w.todo = <<>>
    /\ w.pending # <<>>
    /\ w' = [w EXCEPT !.todo = w.pending]
    /\ UNCHANGED <<gen, outputs, jobLog, job, tasks, cb, env, hist, admin>>
    /\ UNCHANGED edgeVars

\* Mutant of WReturn: the while condition has no ceiling, the loop ends only
\* when the pending set is empty.
WReturnWhenEmpty ==
    /\ w.pc = "poll"
    /\ w.todo = <<>>
    /\ w.pending = <<>>
    /\ w' = IdleW
    /\ job' = JobReturned(job)
    /\ UNCHANGED <<gen, outputs, jobLog, tasks, cb, env, hist, admin>>
    /\ UNCHANGED edgeVars

\* The loop ends, with the pending set empty or the 10 minutes elapsed (a
\* warning is logged), and processGenerationJob returns.
WReturn ==
    /\ w.pc = "poll"
    /\ w.todo = <<>>
    /\ w' = IdleW
    /\ job' = JobReturned(job)
    /\ UNCHANGED <<gen, outputs, jobLog, tasks, cb, env, hist, admin>>
    /\ UNCHANGED edgeVars

\* The awaited call the execution is waiting on throws.  Lines 28-39 are
\* outside the try block: the exception goes straight to the queue.
ThrowPcs ==
    {"markProcessing", "logStarted", "load", "sign", "submit", "submitLog", "persist"}

WThrow ==
    /\ w.pc \in ThrowPcs
    /\ env.faults + env.adminRetries < MaxDisturbances
    /\ env' = [env EXCEPT !.faults = @ + 1]
    /\ IF w.pc \in {"markProcessing", "logStarted"}
       THEN /\ w' = IdleW
            /\ job' = JobThrown(job)
       ELSE /\ w' = [w EXCEPT !.pc = "catchUpdate"]
            /\ UNCHANGED job
    /\ UNCHANGED <<gen, outputs, jobLog, tasks, cb, hist, admin>>
    /\ UNCHANGED edgeVars

\* catch: prisma.generation.update({status: "failed", failureReason: msg, completedAt})
WCatchUpdate ==
    /\ w.pc = "catchUpdate"
    /\ gen' = [gen EXCEPT !.status = "failed", !.failureReason = JobErrorMsg,
                          !.completedAt = TRUE]
    /\ w' = [w EXCEPT !.pc = "catchLog"]
    /\ UNCHANGED <<outputs, jobLog, job, tasks, cb, env, hist, admin>>
    /\ UNCHANGED edgeVars

\* catch: prisma.jobLog.create({event: "job.failed"}); throw err
WCatchLog ==
    /\ w.pc = "catchLog"
    /\ jobLog' = [jobLog EXCEPT !.failed = @ + 1]
    /\ w' = IdleW
    /\ job' = JobThrown(job)
    /\ UNCHANGED <<gen, outputs, tasks, cb, env, hist, admin>>
    /\ UNCHANGED edgeVars

processGenerationJob ==
    \/ WMarkProcessing
    \/ WLogStarted
    \/ WLoad
    \/ WSign
    \/ WSubmit
    \/ WSubmitLog
    \/ WPersist
    \/ WPollQuery
    \/ WPollReturn
    \/ WPollSleep
    \/ WReturn

\* The same execution when one of its awaited calls throws.
processGenerationJobThrows ==
    \/ WThrow
    \/ WCatchUpdate
    \/ WCatchLog

\* The awaited calls of handleKieCallback that can reject: its database calls
\* and the parse of resultJson.  The download, upload and create of the loop
\* over resultUrls are caught inside it.
CbThrowPcs == {"find", "check", "inc", "final", "failInc", "count", "failFinal"}

\* Mutant of WPollCbThrows: the try block of the loop body ends before the call
\* of handleKieCallback, so its exception reaches the catch block of
\* processGenerationJob.
WPollCbThrowsUncaught ==
    /\ w.pc = "pollCb"
    /\ cb[PollSlot].pc \in CbThrowPcs
    /\ env.faults + env.adminRetries < MaxDisturbances
    /\ cb' = [cb EXCEPT ![PollSlot] = IdleCb]
    /\ w' = [w EXCEPT !.pc = "catchUpdate"]
    /\ env' = [env EXCEPT !.faults = @ + 1]
    /\ UNCHANGED <<gen, outputs, jobLog, job, tasks, hist, admin>>
    /\ UNCHANGED edgeVars

\* The handleKieCallback call awaited by the polling loop throws: the catch of
\* the loop body logs a warning; pendingTasks.delete is skipped, so the task
\* stays pending, and the for loop goes on to the next task of the round.
WPollCbThrows ==
    /\ w.pc = "pollCb"
    /\ cb[PollSlot].pc \in CbThrowPcs
    /\ env.faults + env.adminRetries < MaxDisturbances
    /\ cb' = [cb EXCEPT ![PollSlot] = IdleCb]
    /\ w' = [w EXCEPT !.pc = "poll", !.todo = Tail(@)]
    /\ env' = [env EXCEPT !.faults = @ + 1]
    /\ UNCHANGED <<gen, outputs, jobLog, job, tasks, hist, admin>>
    /\ UNCHANGED edgeVars

(* ---------------------------- the provider ----------------------------- *)

\* A waiting task reaches a terminal state: success with a result payload of
\* n URLs (resultJson null or an empty list: 0), or fail with a message or none.
ProviderCompletes(t) ==
    /\ tasks[t].state = "waiting"
    /\ \/ \E n \in 0..MaxUrls :
            tasks' = [tasks EXCEPT ![t] = [state |-> "success", nUrls |-> n,
                                           failMsg |-> NULL]]
       \/ \E m \in {NULL, ProviderMsg(t)} :
            tasks' = [tasks EXCEPT ![t] = [state |-> "fail", nUrls |-> 0,
                                           failMsg |-> m]]
    /\ UNCHANGED <<gen, outputs, jobLog, job, w, cb, env, hist, admin>>
    /\ UNCHANGED edgeVars

(* ------------------------ POST /webhooks/kieai ------------------------- *)

LowestIdleSlot ==
    CHOOSE s \in WebSlots :
        /\ cb[s].pc = "idle"
        /\ \A r \in WebSlots : cb[r].pc = "idle" => s <= r

\* A callback with data.taskId and a terminal state arrives: the handler answers
\* 200 and calls handleKieCallback without awaiting it.  The provider sends the
\* record of a task that reached a terminal state (possibly more than once);
\* anyone can send one for a task id that never existed.
WebhookKieai ==
    /\ env.webhooks < MaxWebhooks
    /\ \E s \in WebSlots : cb[s].pc = "idle"
    /\ \/ \E t \in TaskIds :
            /\ tasks[t].state \in {"success", "fail"}
            /\ cb' = [cb EXCEPT ![LowestIdleSlot] =
                        CallCb(t, tasks[t].state, tasks[t].nUrls, tasks[t].failMsg)]
            /\ hist' = HistOnCall(t, LowestIdleSlot)
       \/ \E st \in {"success", "fail"} :
            /\ cb' = [cb EXCEPT ![LowestIdleSlot] =
                        CallCb(ForeignTask, st, IF st = "success" THEN 1 ELSE 0, NULL)]
            /\ UNCHANGED hist
    /\ env' = [env EXCEPT !.webhooks = @ + 1]
    /\ UNCHANGED <<gen, outputs, jobLog, job, w, tasks, admin>>
    /\ UNCHANGED edgeVars

(* ------------------------- handleKieCallback --------------------------- *)

\* Mutant of FindGeneration: the lookup goes through the job log's
\* "kie.submitted" rows instead of the generation's kieTaskIds.
FindGenerationByJobLog(t) == t \in jobLog.submitted

\* prisma.generation.findFirst({where: {kieTaskIds: {array_contains: taskId}}})
FindGeneration(t) == Contains(gen.kieTaskIds, t)

\* Mutant of ExistingOutput: the idempotency check never matches a row.
ExistingOutputNeverMatches(t) == FALSE

\* prisma.generationOutput.findFirst({where: {generationId, kieTaskId}})
ExistingOutput(t) == outputs[t] > 0

\* Mutant of CountOutputs: the count's filter matches no row.
CountOutputsMatchesNone == Cardinality({t \in TaskIds : FALSE})

\* prisma.generationOutput.count({where: {generationId}})
CountOutputs == SumOver(outputs, TaskIds)

\* Mutant of AllDone: > in place of >=.
AllDoneStrict(updated) == updated.variationsDone > updated.variationsTotal

\* updated.variationsDone >= updated.variationsTotal
AllDone(updated) == updated.variationsDone >= updated.variationsTotal

\* data: {variationsDone: {increment: 1}}, done by the database on the row
IncrementDone(g) == [g EXCEPT !.variationsDone = @ + 1]

\* Mutant of FailStatus: >= in place of >.
FailStatusAtLeastZero(hasOutputs) == IF hasOutputs >= 0 THEN "completed" ELSE "failed"

\* hasOutputs > 0 ? "completed" : "failed"
FailStatus(hasOutputs) == IF hasOutputs > 0 THEN "completed" ELSE "failed"

\* The slot of an invocation that has returned: the polling loop awaits its
\* own, a webhook's is detached.
Returned(s) == IF s = PollSlot THEN [IdleCb EXCEPT !.pc = "done"] ELSE IdleCb

\* History: an invocation that had found the generation for t returns.
HistOnReturn(t) == [hist EXCEPT ![t].finished = @ + 1]

\* The lookup answers.  No generation: log a warning and return.
CbFind(s) ==
    /\ cb[s].pc = "find"
    /\ IF FindGeneration(cb[s].task)
       THEN /\ cb' = [cb EXCEPT ![s].pc = "check"]
            /\ hist' = [hist EXCEPT ![cb[s].task].found = @ + 1]
            /\ UNCHANGED env
       ELSE /\ cb' = [cb EXCEPT ![s] = Returned(s)]
            /\ env' = [env EXCEPT !.unknown = @ + 1]
            /\ UNCHANGED hist
    /\ UNCHANGED <<gen, outputs, jobLog, job, w, tasks, admin>>
    /\ UNCHANGED edgeVars

\* IDEMPOTENCY CHECK: an output row of this task exists: return.  Otherwise
\* prisma.jobLog.create({event: "kie.callback"}), the branch on state and, for
\* success, the parse of resultJson.  (The job log is only ever appended to and
\* never read, so its create is taken in the same step as the check.)
CbCheck(s) ==
    /\ cb[s].pc = "check"
    /\ IF ExistingOutput(cb[s].task)
       THEN /\ cb' = [cb EXCEPT ![s] = Returned(s)]
            /\ hist' = HistOnReturn(cb[s].task)
            /\ UNCHANGED jobLog
       ELSE /\ jobLog' = [jobLog EXCEPT !.callback = @ + 1]
            /\ cb' = [cb EXCEPT ![s].pc = IF cb[s].state = "fail" THEN "failInc"
                                          ELSE IF cb[s].nUrls = 0 THEN "inc"
                                          ELSE "store"]
            /\ UNCHANGED hist
    /\ UNCHANGED <<gen, outputs, job, w, tasks, env, admin>>
    /\ UNCHANGED edgeVars

\* One round of the loop over resultUrls: download, upload and
\* prisma.generationOutput.create; an exception in any of them is logged and
\* the URL skipped.
CbStore(s) ==
    /\ cb[s].pc = "store"
    /\ \E stored \in BOOLEAN :
         IF stored
         THEN /\ outputs' = [outputs EXCEPT ![cb[s].task] = @ + 1]
              /\ UNCHANGED hist
         ELSE /\ hist' = [hist EXCEPT ![cb[s].task].skipped = TRUE]
              /\ UNCHANGED outputs
    /\ cb' = [cb EXCEPT ![s].idx = @ + 1,
                        ![s].pc = IF cb[s].idx + 1 = cb[s].nUrls THEN "inc"
                                  ELSE "store"]
    /\ UNCHANGED <<gen, jobLog, job, w, tasks, env, admin>>
    /\ UNCHANGED edgeVars

\* success: prisma.generation.update({variationsDone: {increment: 1}})
CbInc(s) ==
    /\ cb[s].pc = "inc"
    /\ gen' = IncrementDone(gen)
    /\ IF AllDone(gen')
       THEN /\ cb' = [cb EXCEPT ![s].pc = "final"]
            /\ UNCHANGED hist
       ELSE /\ cb' = [cb EXCEPT ![s] = Returned(s)]
            /\ hist' = HistOnReturn(cb[s].task)
    /\ UNCHANGED <<outputs, jobLog, job, w, tasks, env, admin>>
    /\ UNCHANGED edgeVars

\* success: prisma.generation.update({status: "completed", completedAt})
CbFinal(s) ==
    /\ cb[s].pc = "final"
    /\ gen' = [gen EXCEPT !.status = "completed", !.completedAt = TRUE]
    /\ env' = [env EXCEPT !.termWrites = @ + 1]
    /\ cb' = [cb EXCEPT ![s] = Returned(s)]
    /\ hist' = HistOnReturn(cb[s].task)
    /\ UNCHANGED <<outputs, jobLog, job, w, tasks, admin>>
    /\ UNCHANGED edgeVars

\* fail: prisma.generation.update({variationsDone: {increment: 1},
\*                                 failureReason: failMsg ?? "Kie AI task failed"})
CbFailInc(s) ==
    /\ cb[s].pc = "failInc"
    /\ gen' = [IncrementDone(gen) EXCEPT
                 !.failureReason = IF cb[s].failMsg = NULL THEN DefaultFailMsg
                                   ELSE cb[s].failMsg]
    /\ IF AllDone(gen')
       THEN /\ cb' = [cb EXCEPT ![s].pc = "count"]
            /\ UNCHANGED hist
       ELSE /\ cb' = [cb EXCEPT ![s] = Returned(s)]
            /\ hist' = HistOnReturn(cb[s].task)
    /\ UNCHANGED <<outputs, jobLog, job, w, tasks, env, admin>>
    /\ UNCHANGED edgeVars

\* fail: hasOutputs = prisma.generationOutput.count({where: {generationId}})
CbCount(s) ==
    /\ cb[s].pc = "count"
    /\ cb' = [cb EXCEPT ![s].hasOutputs = CountOutputs, ![s].pc = "failFinal"]
    /\ UNCHANGED <<gen, outputs, jobLog, job, w, tasks, env, hist, admin>>
    /\ UNCHANGED edgeVars

\* fail: prisma.generation.update({status: hasOutputs > 0 ? "completed" : "failed",
\*                                 completedAt})
CbFailFinal(s) ==
    /\ cb[s].pc = "failFinal"
    /\ gen' = [gen EXCEPT !.status = FailStatus(cb[s].hasOutputs),
                          !.completedAt = TRUE]
    /\ env' = [env EXCEPT !.termWrites = @ + 1]
    /\ cb' = [cb EXCEPT ![s] = Returned(s)]
    /\ hist' = HistOnReturn(cb[s].task)
    /\ UNCHANGED <<outputs, jobLog, job, w, tasks, admin>>
    /\ UNCHANGED edgeVars

handleKieCallback(s) ==
    \/ CbFind(s)
    \/ CbCheck(s)
    \/ CbStore(s)
    \/ CbInc(s)
    \/ CbFinal(s)
    \/ CbFailInc(s)
    \/ CbCount(s)
    \/ CbFailFinal(s)

(* ------------------------ POST /admin/retry-job ------------------------ *)

\* queue.add("generate", data, {jobId: generationId}): BullMQ ignores an add
\* whose jobId names a job the queue still holds (waiting, active or kept as
\* failed); a completed job was removed, so the add creates a waiting job.
EnqueueGeneration(j) ==
    IF j.state = "none" THEN [state |-> "waiting", attemptsMade |-> 0] ELSE j

\* The generation exists: prisma.generation.update({status: "queued",
\* failureReason: null, startedAt: null, completedAt: null, kieTaskIds: [],
\* variationsDone: 0})
AdminReset ==
    /\ admin = "idle"
    /\ env.faults + env.adminRetries < MaxDisturbances
    /\ gen' = [gen EXCEPT !.status = "queued", !.failureReason = NULL,
                          !.startedAt = FALSE, !.completedAt = FALSE,
                          !.kieTaskIds = <<>>, !.variationsDone = 0]
    /\ admin' = "enqueue"
    /\ env' = [env EXCEPT !.adminRetries = @ + 1]
    /\ UNCHANGED <<outputs, jobLog, job, w, tasks, cb, hist>>
    /\ UNCHANGED edgeVars

\* enqueueGeneration(generationId, gen.sessionId), then the response
AdminEnqueue ==
    /\ admin = "enqueue"
    /\ job' = EnqueueGeneration(job)
    /\ admin' = "idle"
    /\ UNCHANGED <<gen, outputs, jobLog, w, tasks, cb, env, hist>>
    /\ UNCHANGED edgeVars

retryJob ==
    \/ AdminReset
    \/ AdminEnqueue

(* ------------- POST /webhooks/kieai, the whole request path ------------- *)

\* The request bodies: one express.json cannot parse, bodies without data or
\* without data.taskId, and bodies with a taskId and a state, terminal or not.
Payloads ==
    {[parsed |-> FALSE, hasData |-> FALSE, hasTaskId |-> FALSE, state |-> "absent"],
     [parsed |-> TRUE, hasData |-> FALSE, hasTaskId |-> FALSE, state |-> "absent"]}
    \cup [parsed : {TRUE}, hasData : {TRUE}, hasTaskId : {FALSE},
          state : {"success", "absent"}]
    \cup [parsed : {TRUE}, hasData : {TRUE}, hasTaskId : {TRUE},
          state : {"success", "fail", "generating", "absent"}]

\* const data = body?.data; if (!data?.taskId) ...
HasTaskId(p) == p.hasData /\ p.hasTaskId

\* Mutant of KieaiInvokes: the test of the state is left out.
KieaiInvokesAnyState(p) == HasTaskId(p)

\* The handler reaches the call of handleKieCallback: a taskId, and
\* state === "success" || state === "fail".
KieaiInvokes(p) == HasTaskId(p) /\ p.state \in {"success", "fail"}

\* The status of the response: express.json passes a body it cannot parse to the
\* global error handler, which answers 500; the handler answers 200 on both of
\* its paths.
KieaiStatus(p) == IF p.parsed THEN 200 ELSE 500

\* One request, from the body parser to the end of the handler's synchronous
\* run: the response is sent, then handleKieCallback is called (it runs up to
\* its first await) and left detached.  WebhookKieai is the case of this action
\* in which the payload is terminal.
PostKieai ==
    /\ env.webhooks < MaxWebhooks
    /\ \E s \in WebSlots : cb[s].pc = "idle"
    /\ \E p \in Payloads :
         LET k == env.webhooks + 1
             invoked == p.parsed /\ KieaiInvokes(p)
         IN  /\ web' = [web EXCEPT ![k] =
                          [payload |-> p,
                           status |-> KieaiStatus(p),
                           received |-> p.parsed /\ HasTaskId(p),
                           trace |-> IF invoked THEN <<"respond", "invoke">>
                                     ELSE <<"respond">>,
                           slot |-> IF invoked THEN LowestIdleSlot ELSE 0]]
             /\ IF invoked
                THEN \E t \in TaskIds \cup {ForeignTask} :
                       /\ t \in TaskIds => tasks[t].state = p.state
                       /\ cb' = [cb EXCEPT ![LowestIdleSlot] =
                                   IF t \in TaskIds
                                   THEN CallCb(t, p.state, tasks[t].nUrls,
                                               tasks[t].failMsg)
                                   ELSE CallCb(t, p.state,
                                               IF p.state = "success" THEN 1 ELSE 0,
                                               NULL)]
                       /\ hist' = HistOnCall(t, LowestIdleSlot)
                ELSE UNCHANGED <<cb, hist>>
    /\ env' = [env EXCEPT !.webhooks = @ + 1]
    /\ UNCHANGED <<gen, outputs, jobLog, job, w, tasks, admin, q, del, req, ast>>

\* The request whose detached invocation runs in slot s.
RequestOn(s) ==
    CHOOSE k \in 1..MaxWebhooks :
        /\ web[k].slot = s
        /\ \A j \in 1..MaxWebhooks : (j > k) => web[j].slot # s

\* An awaited call of a detached invocation rejects: the promise's .catch logs
\* the error; the response was sent before the call and is not touched.
CbReject(s) ==
    /\ s \in WebSlots
    /\ cb[s].pc \notin {"idle", "done"}
    /\ env.faults < MaxDisturbances
    /\ \E k \in 1..MaxWebhooks : web[k].slot = s
    /\ cb' = [cb EXCEPT ![s] = IdleCb]
    /\ web' = [web EXCEPT ![RequestOn(s)].trace = Append(@, "rejected")]
    /\ env' = [env EXCEPT !.faults = @ + 1]
    /\ UNCHANGED <<gen, outputs, jobLog, job, w, tasks, admin, hist, q, del, req, ast>>

(* ------------- prompt safety, provider parameters, generate ------------ *)

\* prompt.toLowerCase(), character by character
ToLowerChar(c) ==
    IF \E i \in 1..Len(UpperCase) : UpperCase[i] = c
    THEN LowerCase[CHOOSE i \in 1..Len(UpperCase) : UpperCase[i] = c]
    ELSE c

ToLowerCase(str) == [i \in 1..Len(str) |-> ToLowerChar(str[i])]

\* str.includes(term)
Includes(str, term) ==
    \E i \in 0..(Len(str) - Len(term)) :
        \A k \in 1..Len(term) : str[i + k] = term[k]

PROMPT_BLOCKLIST ==
    {<<"n", "u", "d", "e">>,
     <<"n", "a", "k", "e", "d">>,
     <<"e", "x", "p", "l", "i", "c", "i", "t">>,
     <<"p", "o", "r", "n", "o", "g", "r", "a", "p", "h", "i", "c">>,
     <<"n", "s", "f", "w">>}

\* Mutant of isSafePrompt: the prompt is not lower-cased.
isSafePromptCaseSensitive(prompt) ==
    ~ \E term \in PROMPT_BLOCKLIST : Includes(prompt, term)

\* isSafePrompt: !PROMPT_BLOCKLIST.some((term) => lower.includes(term))
isSafePrompt(prompt) ==
    ~ \E term \in PROMPT_BLOCKLIST : Includes(ToLowerCase(prompt), term)

\* Mutant of resolutionMap: "1k" maps to "1K".
resolutionMapWith1K(res) ==
    IF res = "2k" \/ res = "2K" THEN "2K"
    ELSE IF res = "1k" \/ res = "1K" THEN "1K"
    ELSE "4K"

\* resolutionMap
resolutionMap(res) ==
    IF res = "2k" \/ res = "2K" THEN "2K"
    ELSE IF res = "8k" \/ res = "8K" THEN "4K"
    ELSE "4K"

\* Mutant of aspectRatioFromParams: the side view gets 3:4.
aspectRatioByView(framing, view) ==
    IF framing = "full-body" THEN "2:3"
    ELSE IF framing = "waist-legs" \/ view = "side" THEN "3:4"
    ELSE "2:3"

\* aspectRatioFromParams({framing, view})
aspectRatioFromParams(framing, view) ==
    IF framing = "full-body" THEN "2:3"
    ELSE IF framing = "waist-legs" THEN "3:4"
    ELSE "2:3"

\* generateSchema.safeParse succeeds: the body is well formed and the prompt
\* has at least one character.
SchemaOk(r) == r.bodyValid /\ Len(r.prompt) >= 1

\* The answer of POST /api/generate and of POST /api/generation/:id/update:
\* requireSession, generateRateLimit, then the handler's early returns in the
\* order of the code (update looks the parent up before parsing; generate
\* checks the assets after the prompt).
GenerateStatus(r) ==
    IF ~r.session THEN 401
    ELSE IF r.limited THEN 429
    ELSE IF r.route = "update" /\ ~r.found THEN 404
    ELSE IF ~SchemaOk(r) THEN 400
    ELSE IF ~isSafePrompt(r.prompt) THEN 422
    ELSE IF r.route = "generate" /\ ~r.found THEN 404
    ELSE 201

\* The request is handled: on 201 a generation row was created and
\* enqueueGeneration called.
PostGenerate ==
    /\ req.pc = "received"
    /\ req' = [req EXCEPT !.pc = "answered",
                          !.status = GenerateStatus(req),
                          !.rows = IF GenerateStatus(req) = 201 THEN 1 ELSE 0,
                          !.jobs = IF GenerateStatus(req) = 201 THEN 1 ELSE 0]
    /\ UNCHANGED <<lifecycleVars, q, web, del, ast>>

\* isSafePrompt(prompt) on its own
ApplyIsSafePrompt ==
    /\ req.pc # "none"
    /\ req.safe = "unset"
    /\ req' = [req EXCEPT !.safe = IF isSafePrompt(req.prompt) THEN "safe"
                                   ELSE "unsafe"]
    /\ UNCHANGED <<lifecycleVars, q, web, del, ast>>

\* processGenerationJob: resolutionMap((params.resolution as string) ?? "4k")
ApplyResolutionMap ==
    /\ req.resolved = "unset"
    /\ req' = [req EXCEPT !.resolved =
                 resolutionMap(IF req.resolution = NULL THEN "4k"
                               ELSE req.resolution)]
    /\ UNCHANGED <<lifecycleVars, q, web, del, ast>>

\* processGenerationJob: aspectRatioFromParams({framing, view})
ApplyAspectRatio ==
    /\ req.ratio = "unset"
    /\ req' = [req EXCEPT !.ratio = aspectRatioFromParams(req.framing, req.view)]
    /\ UNCHANGED <<lifecycleVars, q, web, del, ast>>

(* --------------------- soft deletion and read paths -------------------- *)

\* One generation of one session and its output rows: del.genDeleted is
\* "deletedAt is set" on the generation, del.outs[o] is "none" (no row), "live"
\* (deletedAt null) or "deleted"; del.read is the last answer a session-facing
\* read gave (afterDelete: the generation's deletedAt was set when it ran).

\* handleKieCallback stores an output: prisma.generationOutput.create.  Its
\* lookup of the generation does not look at deletedAt.
OutputCreated(o) ==
    /\ del.outs[o] = "none"
    /\ del' = [del EXCEPT !.outs[o] = "live"]
    /\ UNCHANGED <<lifecycleVars, q, web, req, ast>>

\* DELETE /api/generation/:id: the generation is found (deletedAt null) and
\* its deletedAt is set.
DeleteGeneration ==
    /\ ~del.genDeleted
    /\ del' = [del EXCEPT !.genDeleted = TRUE]
    /\ UNCHANGED <<lifecycleVars, q, web, req, ast>>

\* runRetentionPurge and POST /admin/purge: findMany returns the generation
\* (deletedAt null) with its live outputs, whose storage objects are removed.
PurgeFind ==
    /\ del.purge = "idle"
    /\ ~del.genDeleted
    /\ del' = [del EXCEPT !.purge = "outputs"]
    /\ UNCHANGED <<lifecycleVars, q, web, req, ast>>

\* generationOutput.updateMany({where: {generationId}, data: {deletedAt}})
PurgeOutputs ==
    /\ del.purge = "outputs"
    /\ del' = [del EXCEPT
                 !.outs = [o \in OutIds |->
                             IF del.outs[o] = "none" THEN "none" ELSE "deleted"],
                 !.purge = "generation"]
    /\ UNCHANGED <<lifecycleVars, q, web, req, ast>>

\* generation.update({data: {deletedAt}})
PurgeGeneration ==
    /\ del.purge = "generation"
    /\ del' = [del EXCEPT !.genDeleted = TRUE, !.purge = "idle"]
    /\ UNCHANGED <<lifecycleVars, q, web, req, ast>>

\* GET /api/generation/:id: findFirst({id, sessionId, deletedAt: null})
GetGeneration ==
    /\ del' = [del EXCEPT !.read =
                 [route |-> "generation", out |-> 0,
                  status |-> IF del.genDeleted THEN 404 ELSE 200,
                  afterDelete |-> del.genDeleted]]
    /\ UNCHANGED <<lifecycleVars, q, web, req, ast>>

\* GET /api/history: findMany({sessionId, deletedAt: null}); status 200, and
\* out tells whether the generation is among the items (1) or not (0).
GetHistory ==
    /\ del' = [del EXCEPT !.read =
                 [route |-> "history", out |-> IF del.genDeleted THEN 0 ELSE 1,
                  status |-> 200, afterDelete |-> del.genDeleted]]
    /\ UNCHANGED <<lifecycleVars, q, web, req, ast>>

\* GET /api/download/:outputId by the owning session:
\* generationOutput.findFirst({id, deletedAt: null}), then the session test.
GetDownload(o) ==
    /\ del' = [del EXCEPT !.read =
                 [route |-> "download", out |-> o,
                  status |-> IF del.outs[o] = "live" THEN 200 ELSE 404,
                  afterDelete |-> del.genDeleted]]
    /\ UNCHANGED <<lifecycleVars, q, web, req, ast>>

(* ------------------- asset links and the retention purge ---------------- *)

\* Requests here have passed requireSession, the rate limit, the schema and
\* the prompt check; s is the session of the cookie.

\* prisma.asset.findMany({where: {id: {in: assetIds}, sessionId, deletedAt: null}})
\* returns a row for every id of the request.
OwnLiveAssets(s, ids) ==
    \A a \in ids : ast.asset[a].owner = s /\ ~ast.asset[a].deleted

\* prisma.generation.create with assets: {create: assetIds.map(...)}: the new
\* row and its link rows.  clean is history: every linked asset was owned by
\* the session and not soft-deleted when the row was created.
CreateLinked(s, ids, route) ==
    [ast EXCEPT !.made = @ + 1,
                !.status = 201,
                !.gen[ast.made + 1] =
                    [made |-> TRUE, session |-> s, assets |-> ids,
                     route |-> route, old |-> FALSE, deleted |-> FALSE,
                     clean |-> OwnLiveAssets(s, ids)]]

\* POST /api/generate: 404 unless every asset is found for the session.
GenerateLinks(s, ids) ==
    /\ ast.made < MaxLinked
    /\ ast' = IF OwnLiveAssets(s, ids)
              THEN CreateLinked(s, ids, "generate")
              ELSE [ast EXCEPT !.status = 404]
    /\ UNCHANGED <<lifecycleVars, q, web, del, req>>

\* findFirst({where: {id: parentGenerationId, sessionId, deletedAt: null}})
ParentFound(s, p) ==
    ast.gen[p].made /\ ast.gen[p].session = s /\ ~ast.gen[p].deleted

\* POST /api/generation/:id/update: 404 unless the parent is found for the
\* session; assetIds is req.body.assetIds ?? the parent's asset ids (given = {}
\* stands for an absent field), and the row is created with them.
UpdateLinks(s, p, given) ==
    /\ ast.made < MaxLinked
    /\ LET ids == IF given = {} THEN ast.gen[p].assets ELSE given IN
       ast' = IF ~ParentFound(s, p)
              THEN [ast EXCEPT !.status = 404]
              ELSE CreateLinked(s, ids, "update")
    /\ UNCHANGED <<lifecycleVars, q, web, del, req>>

\* Time passes: the createdAt of an asset falls behind the retention cutoff.
AssetExpires(a) ==
    /\ ~ast.asset[a].old
    /\ ast' = [ast EXCEPT !.asset[a].old = TRUE]
    /\ UNCHANGED <<lifecycleVars, q, web, del, req>>

\* Time passes: the createdAt of a generation falls behind the cutoff.  Rows
\* created before it (its assets, the generations made earlier) are behind it
\* already.
GenerationExpires(g) ==
    /\ ast.gen[g].made
    /\ ~ast.gen[g].old
    /\ \A a \in ast.gen[g].assets : ast.asset[a].old
    /\ \A h \in LinkIds : h < g => ast.gen[h].old
    /\ ast' = [ast EXCEPT !.gen[g].old = TRUE]
    /\ UNCHANGED <<lifecycleVars, q, web, del, req>>

\* findMany({where: {createdAt: {lt: cutoff}, deletedAt: null}})
ExpiredGenerations ==
    {g \in LinkIds : ast.gen[g].made /\ ast.gen[g].old /\ ~ast.gen[g].deleted}

\* ...gen.assets.map((ga) => ga.asset.storageKey), over the expired generations
PurgedAssetKeys == UNION {ast.gen[g].assets : g \in ExpiredGenerations}

\* asset.findMany({where: {createdAt: {lt: cutoff}, deletedAt: null,
\* generations: {none: {}}}}): old live assets without any link row.
OrphanedAssets ==
    {a \in AssetIds :
        /\ ast.asset[a].old
        /\ ~ast.asset[a].deleted
        /\ \A g \in LinkIds : ast.gen[g].made => a \notin ast.gen[g].assets}

\* The generations that are neither expired nor soft-deleted.
CurrentGenerations ==
    {g \in LinkIds : ast.gen[g].made /\ ~ast.gen[g].old /\ ~ast.gen[g].deleted}

\* runRetentionPurge: for every expired generation the storage objects of its
\* outputs and of its linked assets are deleted and the generation is
\* soft-deleted (the asset rows are not written); then the orphaned assets
\* lose their objects and are soft-deleted.
runRetentionPurge ==
    /\ ast.purges < MaxPurges
    /\ ast' = [ast EXCEPT
                 !.asset = [a \in AssetIds |->
                              [@[a] EXCEPT
                                 !.object = @ /\ a \notin PurgedAssetKeys
                                              /\ a \notin OrphanedAssets,
                                 !.deleted = @ \/ a \in OrphanedAssets]],
                 !.gen = [g \in LinkIds |->
                            [@[g] EXCEPT
                               !.deleted = @ \/ g \in ExpiredGenerations]],
                 !.purges = @ + 1,
                 !.harmed = @ \cup
                    {a \in PurgedAssetKeys :
                        \E g \in CurrentGenerations : a \in ast.gen[g].assets}]
    /\ UNCHANGED <<lifecycleVars, q, web, del, req>>

(* ------------------------- the generation queue ------------------------ *)

\* The queue on its own, for any number of generations: q.jobs is the set of
\* jobs it holds (seq tells apart jobs added by different calls), q.adds counts
\* the calls of enqueueGeneration, q.gens the generations created so far, and
\* q.ignored is history: the states in which an add found a job of the same id.

GenIds == 1..MaxGenerations

JobsOf(g) == {j \in q.jobs : j.id = g}

\* Mutant of QueueAdd: queue.add without the jobId option; every add makes a
\* job of its own.
QueueAddNoJobId(qu, g) ==
    [qu EXCEPT !.adds = @ + 1,
               !.jobs = @ \cup {[seq |-> qu.adds + 1, id |-> g,
                                 state |-> "waiting", attemptsMade |-> 0]}]

\* queue.add("generate", {generationId, sessionId}, {jobId: generationId}):
\* BullMQ ignores an add whose jobId names a job the queue still holds.
QueueAdd(qu, g) ==
    IF \E j \in qu.jobs : j.id = g
    THEN [qu EXCEPT !.adds = @ + 1,
                    !.ignored = @ \cup {j.state : j \in {k \in qu.jobs : k.id = g}}]
    ELSE [qu EXCEPT !.adds = @ + 1,
                    !.jobs = @ \cup {[seq |-> qu.adds + 1, id |-> g,
                                      state |-> "waiting", attemptsMade |-> 0]}]

\* POST /api/generate (or /generation/:id/update) has created a generation,
\* whose id is fresh, and enqueues it.
GenerateEnqueue ==
    /\ q.adds < MaxAdds
    /\ q.gens < MaxGenerations
    /\ q' = [QueueAdd(q, q.gens + 1) EXCEPT !.gens = q.gens + 1]
    /\ UNCHANGED <<lifecycleVars, web, del, req, ast>>

\* POST /admin/retry-job for a generation that exists: enqueueGeneration again.
RetryEnqueue(g) ==
    /\ q.adds < MaxAdds
    /\ g <= q.gens
    /\ q' = QueueAdd(q, g)
    /\ UNCHANGED <<lifecycleVars, web, del, req, ast>>

\* A worker with a free slot takes a waiting job: processGenerationJob(job).
QueuePickup(j) ==
    /\ j.state = "waiting"
    /\ Cardinality({k \in q.jobs : k.state = "active"}) < Concurrency
    /\ q' = [q EXCEPT !.jobs = (@ \ {j}) \cup {[j EXCEPT !.state = "active"]}]
    /\ UNCHANGED <<lifecycleVars, web, del, req, ast>>

\* processGenerationJob returned: removeOnComplete.
QueueReturned(j) ==
    /\ j.state = "active"
    /\ q' = [q EXCEPT !.jobs = @ \ {j}]
    /\ UNCHANGED <<lifecycleVars, web, del, req, ast>>

\* processGenerationJob threw: retried while attempts are left, else kept failed.
QueueThrown(j) ==
    /\ j.state = "active"
    /\ q' = [q EXCEPT !.jobs = (@ \ {j}) \cup
                {[j EXCEPT !.state = JobThrown(j).state,
                           !.attemptsMade = JobThrown(j).attemptsMade]}]
    /\ UNCHANGED <<lifecycleVars, web, del, req, ast>>

(* -------------------------- the specification -------------------------- *)

Next ==
    \/ JobPickup
    \/ processGenerationJob
    \/ \E t \in TaskIds : ProviderCompletes(t)
    \/ WebhookKieai
    \/ \E s \in Slots : handleKieCallback(s)

Spec == Init /\ [][Next]_vars

\* Single-variation generations, with exceptions in processGenerationJob (and
\* the queue's retries) and with POST /admin/retry-job.
InitRetry == Init /\ gen.params = 1

NextRetry ==
    \/ Next
    \/ processGenerationJobThrows
    \/ retryJob

SpecRetry == InitRetry /\ [][NextRetry]_vars

\* The webhook endpoint, for a generation whose run has persisted its task ids
\* and whose polling loop has ended with the tasks still waiting.
InitWebhook ==
    /\ \E n \in 1..MaxVariations :
         /\ gen = [status |-> "processing", params |-> n,
                   kieTaskIds |-> [i \in 1..n |-> i],
                   variationsTotal |-> n, variationsDone |-> 0,
                   failureReason |-> NULL, startedAt |-> TRUE, completedAt |-> FALSE]
         /\ jobLog = [queued |-> 1, started |-> 1, submitted |-> 1..n,
                      callback |-> 0, failed |-> 0]
         /\ tasks = [t \in TaskIds |->
                       [state |-> IF t <= n THEN "waiting" ELSE "none",
                        nUrls |-> 0, failMsg |-> NULL]]
         /\ env = [webhooks |-> 0, faults |-> 0, created |-> n, adminRetries |-> 0,
                   termWrites |-> 0, unknown |-> 0, lowered |-> FALSE]
    /\ outputs = [t \in TaskIds |-> 0]
    /\ job = [state |-> "none", attemptsMade |-> 0]
    /\ w = IdleW
    /\ cb = [s \in Slots |-> IdleCb]
    /\ admin = "idle"
    /\ hist = [t \in TaskIds |-> NoHist]
    /\ q = EmptyQueue
    /\ web = [k \in 1..MaxWebhooks |-> NoRequest]
    /\ del = NotDeleted
    /\ ast = NoLinks
    /\ req = NoRequestYet

NextWebhook ==
    \/ PostKieai
    \/ \E t \in TaskIds : ProviderCompletes(t)
    \/ \E s \in WebSlots : handleKieCallback(s)
    \/ \E s \in WebSlots : CbReject(s)

SpecWebhook == InitWebhook /\ [][NextWebhook]_vars

\* One request to generate or update, with any prompt of Prompts.
InitGenerate ==
    /\ InitGeneration
    /\ gen.params = 1
    /\ q = EmptyQueue
    /\ web = [k \in 1..MaxWebhooks |-> NoRequest]
    /\ del = NotDeleted
    /\ ast = NoLinks
    /\ \E r \in [route : {"generate", "update"}, session : BOOLEAN,
                  limited : BOOLEAN, bodyValid : BOOLEAN, found : BOOLEAN,
                  prompt : Prompts] :
         req = [NoRequestYet EXCEPT
                  !.pc = "received", !.route = r.route, !.session = r.session,
                  !.limited = r.limited, !.bodyValid = r.bodyValid,
                  !.found = r.found, !.prompt = r.prompt]

NextGenerate ==
    \/ PostGenerate
    \/ ApplyIsSafePrompt

SpecGenerate == InitGenerate /\ [][NextGenerate]_vars

\* The stored params of a generation, any strings, that processGenerationJob
\* computes the provider's parameters from.
ResolutionInputs == {"2k", "2K", "8k", "8K", "4k", "1K", "blah", NULL}
FramingInputs == {"full-body", "waist-legs", "preserve", "Full-Body", NULL}
ViewInputs == {"front", "side", NULL}

InitParams ==
    /\ InitGeneration
    /\ gen.params = 1
    /\ q = EmptyQueue
    /\ web = [k \in 1..MaxWebhooks |-> NoRequest]
    /\ del = NotDeleted
    /\ ast = NoLinks
    /\ \E r \in [resolution : ResolutionInputs, framing : FramingInputs,
                  view : ViewInputs] :
         req = [NoRequestYet EXCEPT
                  !.resolution = r.resolution, !.framing = r.framing,
                  !.view = r.view]

NextParams ==
    \/ ApplyResolutionMap
    \/ ApplyAspectRatio

SpecParams == InitParams /\ [][NextParams]_vars

\* Soft deletion of a generation and the reads of its session.
InitDelete == Init /\ gen.params = 1

NextDelete ==
    \/ \E o \in OutIds : OutputCreated(o)
    \/ DeleteGeneration
    \/ PurgeFind
    \/ PurgeOutputs
    \/ PurgeGeneration
    \/ GetGeneration
    \/ GetHistory
    \/ \E o \in OutIds : GetDownload(o)

SpecDelete == InitDelete /\ [][NextDelete]_vars

\* The queue under enqueueGeneration calls and the workers' executions.
InitQueue == Init /\ gen.params = 1

NextQueue ==
    \/ GenerateEnqueue
    \/ \E g \in GenIds : RetryEnqueue(g)
    \/ \E j \in q.jobs : QueuePickup(j)
    \/ \E j \in q.jobs : QueueReturned(j)
    \/ \E j \in q.jobs : QueueThrown(j)

SpecQueue == InitQueue /\ [][NextQueue]_vars

\* Generations of one variation, with progress: a picked-up job runs, every
\* step of processGenerationJob and of handleKieCallback that is waiting on an
\* awaited call is eventually taken, and the polling loop ends (its 10 minute
\* ceiling).  The provider and its webhook deliveries are under no obligation.
InitLive == Init /\ gen.params <= 1

Fairness ==
    /\ WF_vars(JobPickup)
    /\ WF_vars(processGenerationJob)
    /\ SF_vars(WReturn)
    /\ \A s \in Slots : WF_vars(handleKieCallback(s))

SpecLive == InitLive /\ [][Next]_vars /\ Fairness

\* The worker's run and its polling loop on their own (no webhook reaches the
\* server, the deployment the loop exists for), with an exception thrown inside
\* the handleKieCallback call that the loop awaits.
NextPoll ==
    \/ JobPickup
    \/ processGenerationJob
    \/ \E t \in TaskIds : ProviderCompletes(t)
    \/ handleKieCallback(PollSlot)
    \/ WPollCbThrows

SpecPoll == Init /\ [][NextPoll]_vars

\* Single-variation generations with webhooks and the polling loop, and an
\* exception thrown inside the handleKieCallback call that the loop awaits.
NextRedelivery ==
    \/ Next
    \/ WPollCbThrows

SpecRedelivery == InitRetry /\ [][NextRedelivery]_vars

\* A generation whose job failed after exhausting its attempts (each execution
\* threw while loading the generation, before any task was submitted) and is
\* retained by the queue (removeOnFail: false).  The counters of env start
\* afresh.
ExhaustedGeneration ==
    /\ gen = [status |-> "failed", params |-> 1, kieTaskIds |-> <<>>,
              variationsTotal |-> 1, variationsDone |-> 0,
              failureReason |-> JobErrorMsg, startedAt |-> TRUE,
              completedAt |-> TRUE]
    /\ outputs = [t \in TaskIds |-> 0]
    /\ jobLog = [queued |-> 1, started |-> Attempts, submitted |-> {},
                 callback |-> 0, failed |-> Attempts]
    /\ job = [state |-> "failed", attemptsMade |-> Attempts]
    /\ w = IdleW
    /\ tasks = [t \in TaskIds |->
                  [state |-> "none", nUrls |-> 0, failMsg |-> NULL]]
    /\ cb = [s \in Slots |-> IdleCb]
    /\ admin = "idle"
    /\ env = [webhooks |-> 0, faults |-> 0, created |-> 0, adminRetries |-> 0,
              termWrites |-> 0, unknown |-> 0, lowered |-> FALSE]
    /\ hist = [t \in TaskIds |-> NoHist]
    /\ q = EmptyQueue
    /\ web = [k \in 1..MaxWebhooks |-> NoRequest]
    /\ del = NotDeleted
    /\ ast = NoLinks
    /\ req = NoRequestYet

\* POST /admin/retry-job in every state of the generation's job: waiting,
\* active, removed after a return, or retained as failed.  The outcomes reach
\* the reconciler through the polling loop.
InitAdminRetry == InitRetry \/ ExhaustedGeneration

NextAdminRetry ==
    \/ JobPickup
    \/ processGenerationJob
    \/ \E t \in TaskIds : ProviderCompletes(t)
    \/ handleKieCallback(PollSlot)
    \/ retryJob

\* The route handler goes on to enqueueGeneration after its update.
FairnessAdminRetry == Fairness /\ WF_vars(AdminEnqueue)

SpecAdminRetry == InitAdminRetry /\ [][NextAdminRetry]_vars /\ FairnessAdminRetry

\* Two uploaded assets, the first of session s1 and the second of either
\* session; generate and update requests of both sessions, the passing of
\* time and the retention purge.
InitAssets ==
    /\ InitGeneration
    /\ gen.params = 1
    /\ q = EmptyQueue
    /\ web = [k \in 1..MaxWebhooks |-> NoRequest]
    /\ del = NotDeleted
    /\ req = NoRequestYet
    /\ \E o \in Sessions : ast = FreshAssets([a \in AssetIds |->
                                                 IF a = 1 THEN "s1" ELSE o])

NextAssets ==
    \/ \E s \in Sessions, ids \in SUBSET AssetIds \ {{}} : GenerateLinks(s, ids)
    \/ \E s \in Sessions, p \in LinkIds, given \in SUBSET AssetIds :
         UpdateLinks(s, p, given)
    \/ \E a \in AssetIds : AssetExpires(a)
    \/ \E g \in LinkIds : GenerationExpires(g)
    \/ runRetentionPurge

SpecAssets == InitAssets /\ [][NextAssets]_vars

(* ------------------------------ properties ----------------------------- *)

\* The task ids of the generation's kieTaskIds list.
GenTasks == {gen.kieTaskIds[k] : k \in 1..Len(gen.kieTaskIds)}

SuccessTasks == {t \in GenTasks : tasks[t].state = "success"}

\* The number of GenerationOutput rows of the generation.
OutputRows == SumOver(outputs, TaskIds)

\* No invocation of handleKieCallback is running.
NoneRunning == \A s \in Slots : cb[s].pc \in {"idle", "done"}

\* Every task of the generation has been reconciled by exactly one invocation
\* (one that found the generation), and that invocation has returned.
EachReconciledOnce ==
    /\ gen.kieTaskIds # <<>>
    /\ \A t \in GenTasks : hist[t].found = 1 /\ hist[t].finished = 1

\* Every result URL of every successful task was downloaded and stored by each
\* invocation that tried, and every success payload carries exactly one URL.
OneUrlEachStored ==
    \A t \in SuccessTasks : tasks[t].nUrls = 1 /\ ~hist[t].skipped

\* handleKieCallback was called twice for t, the second call after the first
\* had returned, and both have returned.
CalledTwiceInSequence(t) ==
    /\ hist[t].found = 2
    /\ hist[t].finished = 2
    /\ ~hist[t].overlap

\* C1: in every reachable state the generation has at most one GenerationOutput
\* row per kieTaskId, also when handleKieCallback runs concurrently for the
\* same task id from the webhook and from the polling loop.
C1_AtMostOneOutputPerTask == \A t \in TaskIds : outputs[t] <= 1

C3_DoneAtMostTotal == gen.variationsDone <= gen.variationsTotal

\* C4 (as claimed): no step of the worker or of the reconciler lowers
\* variationsDone (every step but those of POST /admin/retry-job).
C4_WorkerAndReconcilerNeverLower ==
    [][admin' = admin => gen'.variationsDone >= gen.variationsDone]_vars

\* C4 (amended): variationsDone is lowered only by a reset to 0, made by POST
\* /admin/retry-job or by the worker's update that persists the task ids of a
\* run; handleKieCallback never lowers it, and as long as no admin retry has
\* happened (queue retries of the job included) no step lowers it.
C4_LoweredOnlyByReset ==
    [][/\ gen'.variationsDone < gen.variationsDone =>
            /\ gen'.variationsDone = 0
            /\ admin' # admin \/ (w.pc = "persist" /\ w'.pc = "poll")
       /\ (env.adminRetries = 0 /\ admin' = admin) =>
            gen'.variationsDone >= gen.variationsDone]_vars

\* The worker's persisting update has reset a positive variationsDone.
C4_Witness == env.lowered /\ env.adminRetries > 0 /\ w.pc = "poll"

\* C5: once each of the N tasks of the generation has been reconciled (by one
\* invocation each, in any interleaving), the status is terminal and has been
\* written to a terminal value by exactly one invocation.
C5_TerminalExactlyOnce ==
    EachReconciledOnce =>
        /\ env.termWrites = 1
        /\ gen.status \in {"completed", "failed"}

C5_Witness ==
    /\ EachReconciledOnce
    /\ Len(gen.kieTaskIds) = 2
    /\ env.termWrites = 1

\* C6: a call for a task id that an earlier call had already reconciled (with
\* success or failure) is a no-op: no step of it changes the generation row or
\* adds an output row.
C6_DuplicateIsNoOp ==
    [][\A s \in Slots :
          (cb[s].dup /\ cb'[s] # cb[s]) => (gen' = gen /\ outputs' = outputs)]_vars

C8_PartialSuccessCompletes ==
    (EachReconciledOnce /\ SuccessTasks # {}) =>
        /\ gen.status = "completed"
        /\ OutputRows = Cardinality(SuccessTasks)

\* C8 (amended): the same, for successful tasks whose payload carries one
\* result URL that is downloaded and stored.
C8_PartialSuccessStoredCompletes ==
    (EachReconciledOnce /\ SuccessTasks # {} /\ OneUrlEachStored) =>
        /\ gen.status = "completed"
        /\ OutputRows = Cardinality(SuccessTasks)

C8_Witness ==
    /\ EachReconciledOnce
    /\ OneUrlEachStored
    /\ Cardinality(SuccessTasks) = 1
    /\ Len(gen.kieTaskIds) = 2
    /\ gen.status = "completed"
    /\ OutputRows = 1

\* C9: when all N tasks have been reconciled with failure, the status is
\* failed and the generation has no output row.
C9_AllFailedIsFailed ==
    (/\ gen.kieTaskIds # <<>>
     /\ \A t \in GenTasks : tasks[t].state = "fail" /\ hist[t].finished >= 1
     /\ NoneRunning)
        => (gen.status = "failed" /\ OutputRows = 0)

C9_Witness ==
    /\ Len(gen.kieTaskIds) = 2
    /\ \A t \in GenTasks : tasks[t].state = "fail" /\ hist[t].finished >= 1
    /\ NoneRunning
    /\ gen.status = "failed"

\* C10: variationsTotal = 2, tasks A and B both succeed (one URL each, stored),
\* every outcome has been delivered at least once, by the webhook, by the
\* polling loop or by both: the generation ends with exactly 2 outputs, status
\* completed and variationsDone = 2.
C10_WebhookAndPollingConverge ==
    (/\ Len(gen.kieTaskIds) = 2
     /\ SuccessTasks = GenTasks
     /\ OneUrlEachStored
     /\ \A t \in GenTasks : hist[t].finished >= 1
     /\ NoneRunning)
        => (/\ OutputRows = 2
            /\ gen.status = "completed"
            /\ gen.variationsDone = 2)

\* C11: a single-variation generation whose provider task failed, with the
\* failure delivered to the reconciler by the webhook, by the polling loop or by
\* both, ends with status failed, failureReason the provider's failure message
\* and variationsDone = 1.
C11_SingleFailureEndsFailed ==
    (/\ Len(gen.kieTaskIds) = 1
     /\ \A t \in GenTasks : tasks[t].state = "fail" /\ hist[t].finished >= 1
     /\ NoneRunning)
        => (/\ gen.status = "failed"
            /\ \A t \in GenTasks :
                 tasks[t].failMsg # NULL => gen.failureReason = tasks[t].failMsg
            /\ gen.variationsDone = 1)

\* C13: no provider task submitted for the generation is in a terminal state
\* while its id is not yet in the generation's kieTaskIds.
C13_IdsPersistedBeforeCompletion ==
    \A t \in TaskIds :
        tasks[t].state \in {"success", "fail"} => Contains(gen.kieTaskIds, t)

\* Every task of the generation's run has been submitted, has reached a
\* terminal provider state, and its outcome has been passed to
\* handleKieCallback at least once.
AllOutcomesDelivered ==
    /\ env.created = VariationsOf(gen.params)
    /\ \A t \in 1..env.created :
         tasks[t].state \in {"success", "fail"} /\ hist[t].called

\* C14: once every submitted task is terminal and every outcome has been
\* delivered to handleKieCallback at least once (webhook or polling), the
\* generation eventually has status completed or failed.
C14_DeliveredLeadsToTerminal ==
    AllOutcomesDelivered ~> gen.status \in {"completed", "failed"}

\* C12: enqueueGeneration adds with jobId = generation id, so no generation id
\* ever has two executions of processGenerationJob running at the same time,
\* however often it is enqueued again while a job of it is waiting or active.
C12_OneExecutionPerGeneration ==
    \A g \in GenIds : Cardinality({j \in JobsOf(g) : j.state = "active"}) <= 1

\* Adds were ignored for a waiting and for an active job, and a job is running.
C12_Witness ==
    /\ {"waiting", "active"} \subseteq q.ignored
    /\ \E j \in q.jobs : j.state = "active"

\* C15: every POST /webhooks/kieai request is answered 200; when
\* handleKieCallback is invoked the response was sent before the call; and an
\* error thrown inside handleKieCallback leaves the response as it was.
C15_AlwaysAcknowledged ==
    \A k \in 1..MaxWebhooks :
        web[k].trace # <<>> =>
            /\ web[k].status = 200
            /\ web[k].trace[1] = "respond"

\* C16: handleKieCallback is invoked for a request if and only if its body
\* carries data.taskId and data.state is success or fail; the handling of any
\* other request changes no generation, output or job-log row.
C16_InvokedIffTerminalWithTaskId ==
    [][\A k \in 1..MaxWebhooks :
         (web[k].trace = <<>> /\ web'[k].trace # <<>>) =>
            LET p == web'[k].payload
                terminal == /\ p.parsed /\ p.hasData /\ p.hasTaskId
                            /\ p.state \in {"success", "fail"}
            IN  /\ (web'[k].slot # 0) <=> terminal
                /\ (web'[k].slot # 0) => cb'[web'[k].slot].pc = "find"
                /\ (web'[k].slot = 0) => cb' = cb
                /\ gen' = gen /\ outputs' = outputs /\ jobLog' = jobLog]_vars

\* A request with a taskId and a non-terminal state, and one with a terminal
\* state whose invocation went on to write rows, have both been handled.
C16_Witness ==
    /\ \E k \in 1..MaxWebhooks :
         /\ web[k].payload.hasTaskId
         /\ web[k].payload.state = "generating"
         /\ web[k].slot = 0
    /\ \E k \in 1..MaxWebhooks : web[k].slot # 0
    /\ jobLog.callback > 0

\* C17: once the generation's deletedAt is set, GET /api/generation/:id answers
\* 404, GET /api/history omits the generation and GET /api/download/:outputId
\* answers 404 for each of its outputs, those created after the deletion too.
C17_DeletedIsUnreadable ==
    del.read.afterDelete =>
        /\ del.read.route = "generation" => del.read.status = 404
        /\ del.read.route = "history" => del.read.out = 0
        /\ del.read.route = "download" => del.read.status = 404

\* C18: resolutionMap returns "2K" for "2k" and "2K", "4K" for "8k" and "8K",
\* and "4K" for every other string; it never returns "1K" and always returns.
C18_ResolutionMapTotal ==
    LET res == IF req.resolution = NULL THEN "4k" ELSE req.resolution IN
    req.resolved # "unset" =>
        /\ res \in {"2k", "2K"} => req.resolved = "2K"
        /\ res \in {"8k", "8K"} => req.resolved = "4K"
        /\ res \notin {"2k", "2K", "8k", "8K"} => req.resolved = "4K"
        /\ req.resolved \in {"2K", "4K"}

\* resolutionMap was applied to "8K" and clamped it to "4K".
C18_Witness == req.resolution = "8K" /\ req.resolved = "4K"

\* C19: aspectRatioFromParams returns "2:3" for framing "full-body", "3:4" for
\* "waist-legs" and "2:3" for any other or absent framing, whatever the view.
C19_AspectRatioFromFraming ==
    req.ratio # "unset" =>
        /\ req.framing = "full-body" => req.ratio = "2:3"
        /\ req.framing = "waist-legs" => req.ratio = "3:4"
        /\ req.framing \notin {"full-body", "waist-legs"} => req.ratio = "2:3"

\* aspectRatioFromParams was applied to waist-legs framing with the side view.
C19_Witness ==
    /\ req.framing = "waist-legs"
    /\ req.view = "side"
    /\ req.ratio = "3:4"

\* The prompt contains a blocklisted term, letters compared without case.
ContainsBlockedTerm(prompt) ==
    \E term \in PROMPT_BLOCKLIST :
        \E i \in 0..(Len(prompt) - Len(term)) :
            \A k \in 1..Len(term) :
                \/ prompt[i + k] = term[k]
                \/ \E n \in 1..Len(LowerCase) :
                     LowerCase[n] = term[k] /\ UpperCase[n] = prompt[i + k]

\* C20 (as claimed): isSafePrompt is false exactly for prompts containing a
\* blocklisted term, and a generate or update request with such a prompt is
\* answered 422, creates no generation row and enqueues no job.
C20_UnsafePromptIs422 ==
    /\ req.safe # "unset" =>
         ((req.safe = "unsafe") <=> ContainsBlockedTerm(req.prompt))
    /\ (req.pc = "answered" /\ ContainsBlockedTerm(req.prompt)) =>
         (req.status = 422 /\ req.rows = 0 /\ req.jobs = 0)

\* C20 (amended): isSafePrompt is false exactly for prompts containing a
\* blocklisted term; a request with such a prompt creates no generation row and
\* enqueues no job; and it is answered 422 when it passes what the routes check
\* first: the session, the rate limit, the schema and, for update, the parent.
C20_UnsafePromptRejected ==
    /\ req.safe # "unset" =>
         ((req.safe = "unsafe") <=> ContainsBlockedTerm(req.prompt))
    /\ (req.pc = "answered" /\ ContainsBlockedTerm(req.prompt)) =>
         /\ req.rows = 0 /\ req.jobs = 0
         /\ req.status # 201
         /\ (/\ req.session /\ ~req.limited
             /\ req.bodyValid /\ Len(req.prompt) >= 1
             /\ (req.route = "update" => req.found))
            => req.status = 422

\* An update request in mixed case was answered 422 with nothing created.
C20_Witness ==
    /\ req.pc = "answered"
    /\ req.route = "update"
    /\ req.prompt = <<"n", "U", "d", "E">>
    /\ req.safe = "unsafe"
    /\ req.status = 422
    /\ req.rows = 0

\* C21: when an awaited call of steps 1 to 4 of processGenerationJob throws
\* (marking processing, logging job.started, loading, signing, submitting,
\* persisting), the execution ends by throwing to the queue with the generation
\* in status failed, failureReason the exception's message, and one more
\* job.failed row in the job log.
C21_ThrowMarksFailedAndRethrows ==
    [][job'.attemptsMade > job.attemptsMade =>
          /\ gen'.status = "failed"
          /\ gen'.failureReason = JobErrorMsg
          /\ jobLog'.failed = jobLog.failed + 1]_vars

\* The tasks of a sequence, as a set.
SetOf(seq) == {seq[k] : k \in 1..Len(seq)}

\* C22: in the polling loop a failure concerning one task (a fail state, an
\* exception of kieQueryTask or of handleKieCallback) never makes the execution
\* throw or take the job-failure path, and the other pending tasks are still
\* polled: the round goes on with the tasks after it, and no other task leaves
\* the pending set.
C22_TaskFailureDoesNotAbortJob ==
    /\ [](/\ w.pc \notin {"catchUpdate", "catchLog"}
          /\ job.attemptsMade = 0
          /\ jobLog.failed = 0
          /\ gen.failureReason # JobErrorMsg)
    /\ [][(w.pc \in {"poll", "pollCb"} /\ w.todo # <<>> /\ w' # w) =>
            /\ w'.pc \in {"poll", "pollCb"}
            /\ w'.pc = "pollCb" => w'.todo = w.todo /\ w'.pending = w.pending
            /\ w'.pc = "poll" =>
                 /\ w'.todo = Tail(w.todo)
                 /\ SetOf(w.pending) \ {Head(w.todo)} \subseteq SetOf(w'.pending)]_vars

\* With two tasks pending, the handleKieCallback call for the first threw, the
\* first is still pending, and the loop went on to poll the second.
C22_Witness ==
    /\ env.faults = 1
    /\ Len(w.taskIds) = 2
    /\ w.pc = "pollCb"
    /\ cb[PollSlot].task = w.taskIds[2]
    /\ Contains(w.pending, w.taskIds[1])
    /\ jobLog.failed = 0

\* C23: the polling loop always terminates (the pending set is empty or the 10
\* minute ceiling has elapsed), and when it ends the execution returns normally
\* (the job is removed, no attempt is counted) and the return itself leaves the
\* generation row, the outputs and the job log as they were.
C23_PollingLoopTerminates ==
    /\ (w.pc \in {"poll", "pollCb"}) ~> (w.pc = "idle")
    /\ [][(w.pc = "poll" /\ w'.pc = "idle") =>
            /\ gen' = gen
            /\ outputs' = outputs
            /\ jobLog' = jobLog
            /\ job'.state = "none"
            /\ job'.attemptsMade = job.attemptsMade]_vars

\* The loop ended on the ceiling: the execution has returned while the task of
\* the generation is still waiting at the provider and the status is processing.
C23_Witness ==
    /\ w.pc = "idle"
    /\ job = [state |-> "none", attemptsMade |-> 0]
    /\ gen.status = "processing"
    /\ gen.variationsDone = 0
    /\ gen.kieTaskIds # <<>>
    /\ \A t \in GenTasks : tasks[t].state = "waiting"

\* C24: every step that sets the status to completed or failed is one in which
\* variationsDone has just reached variationsTotal, so in every reachable state
\* a generation with status completed has variationsDone >= variationsTotal.
C24_CompletedHasAllDone ==
    gen.status = "completed" => gen.variationsDone >= gen.variationsTotal

\* C25: POST /admin/retry-job resets the generation (status queued,
\* failureReason, startedAt and completedAt cleared, kieTaskIds emptied,
\* variationsDone 0), and once it has been handled an execution of
\* processGenerationJob eventually starts on the reset generation, whatever the
\* state of the generation's job was, retained as failed included.
C25_RetryStartsNewExecution ==
    /\ [][(admin = "idle" /\ admin' = "enqueue") =>
            gen' = [gen EXCEPT !.status = "queued", !.failureReason = NULL,
                               !.startedAt = FALSE, !.completedAt = FALSE,
                               !.kieTaskIds = <<>>, !.variationsDone = 0]]_vars
    /\ (env.adminRetries > 0 /\ admin = "idle") ~> gen.startedAt

\* C26: absent an admin retry, once the status is completed or failed no step
\* changes it: no later pickup of the job and no later handleKieCallback call
\* moves it to processing or to the other terminal status.
C26_TerminalIsAbsorbing ==
    [][(gen.status \in {"completed", "failed"} /\ env.adminRetries = 0
            /\ admin = "idle" /\ admin' = admin)
          => gen'.status = gen.status]_vars

\* C27: when a handleKieCallback call for a successful task failed after it had
\* created the task's output row and before it had incremented variationsDone,
\* a later delivery of the same outcome still counts the task: once a later
\* call for a task that has an output row has returned and none is running,
\* the task has been counted in variationsDone.
C27_LaterDeliveryCounts ==
    \A t \in GenTasks :
        (/\ outputs[t] > 0
         /\ hist[t].finished >= 1
         /\ \A s \in Slots : cb[s].task = t => cb[s].pc \in {"idle", "done"})
            => gen.variationsDone >= 1

\* C28: in every reachable state a generation with status failed has a non-null
\* failureReason, also when a failure finalization of handleKieCallback or a
\* failure of the worker interleaves with POST /admin/retry-job.
C28_FailedHasReason == gen.status = "failed" => gen.failureReason # NULL

\* C29: every asset linked to a generation is owned by the generation's session
\* and was not soft-deleted when the generation was created, whether POST
\* /api/generate or POST /api/generation/:id/update created it; a request
\* naming an asset of another session creates no generation.
C29_LinkedAssetsOwnedAndLive ==
    \A g \in LinkIds :
        ast.gen[g].made =>
            /\ ast.gen[g].clean
            /\ \A a \in ast.gen[g].assets : ast.asset[a].owner = ast.gen[g].session

\* C30: runRetentionPurge never deletes the storage object of an asset still
\* linked to a generation that is neither expired nor soft-deleted, and after
\* a purge every asset row with deletedAt null still has its storage object.
C30_PurgeKeepsLinkedAssets ==
    /\ ast.harmed = {}
    /\ ast.purges > 0 =>
         \A a \in AssetIds : ~ast.asset[a].deleted => ast.asset[a].object

====
